---- MODULE Spec2Model ----
(***************************************************************************)
(* A model of the langchain-extract server: the /extract_from_text        *)
(* endpoint (backend/server/main.py), the query-analysis chain and its     *)
(* helpers _deduplicate and _make_prompt_template                          *)
(* (backend/server/query_analysis.py), and the extractor endpoints that    *)
(* backend/tests/unit_tests/test_api_extract.py exercises.                 *)
(***************************************************************************)
EXTENDS Integers, Sequences, FiniteSets, TLC

(***************************************************************************)
(* Bounds of the model.                                                    *)
(***************************************************************************)
MaxResponses == 2
MaxItems == 2
MaxTotalItems == 4

(***************************************************************************)
(* JSON values.  A Python value that json.dumps accepts is a record with   *)
(* one shape for every kind, so that values of different kinds compare.    *)
(* A dict is the sequence of its (key, value) entries in insertion order,  *)
(* as a Python dict keeps them.                                            *)
(***************************************************************************)
JInt(n) == [kind |-> "int", num |-> n, str |-> "", obj |-> <<>>, arr |-> <<>>]

JStr(s) == [kind |-> "str", num |-> 0, str |-> s, obj |-> <<>>, arr |-> <<>>]

JObj(entries) == [kind |-> "obj", num |-> 0, str |-> "", obj |-> entries, arr |-> <<>>]

JList(elems) == [kind |-> "list", num |-> 0, str |-> "", obj |-> <<>>, arr |-> elems]

JNull == [kind |-> "null", num |-> 0, str |-> "", obj |-> <<>>, arr |-> <<>>]

KV(key, val) == [k |-> key, v |-> val]

\* The keys that occur in the model, in Python's str order (code points).
KeyAlphabet == <<"a", "age", "b", "data", "extracted", "name">>

KeyRank(key) == CHOOSE i \in 1..Len(KeyAlphabet) : KeyAlphabet[i] = key

\* sorted(dct.items()) of json.dumps(..., sort_keys=True): insertion sort of
\* the entries by key; the keys of a dict are distinct.
RECURSIVE InsertByKey(_, _)
InsertByKey(sorted, e) ==
    IF sorted = <<>> THEN <<e>>
    ELSE IF KeyRank(e.k) < KeyRank(Head(sorted).k) THEN <<e>> \o sorted
    ELSE <<Head(sorted)>> \o InsertByKey(Tail(sorted), e)

RECURSIVE SortByKey(_)
SortByKey(entries) ==
    IF entries = <<>> THEN <<>>
    ELSE InsertByKey(SortByKey(Tail(entries)), Head(entries))

\* json.dumps(value, sort_keys=sort_keys) with the default separators
\* (", " between items, ": " between a key and its value).
RECURSIVE json_dumps(_, _)
RECURSIVE DumpEntries(_, _)
RECURSIVE DumpElems(_, _)
DumpEntries(entries, sort_keys) ==
    IF entries = <<>> THEN ""
    ELSE "\"" \o Head(entries).k \o "\": " \o json_dumps(Head(entries).v, sort_keys)
         \o (IF Len(entries) > 1 THEN ", " ELSE "")
         \o DumpEntries(Tail(entries), sort_keys)

DumpElems(elems, sort_keys) ==
    IF elems = <<>> THEN ""
    ELSE json_dumps(Head(elems), sort_keys)
         \o (IF Len(elems) > 1 THEN ", " ELSE "")
         \o DumpElems(Tail(elems), sort_keys)

\* json.dumps sorting the keys of the outermost dict only.
json_dumpsTopLevelSort(value, sort_keys) ==
    CASE value.kind = "int" -> ToString(value.num)
      [] value.kind = "str" -> "\"" \o value.str \o "\""
      [] value.kind = "obj" ->
           "{" \o DumpEntries(IF sort_keys THEN SortByKey(value.obj) ELSE value.obj,
                              FALSE) \o "}"
      [] value.kind = "list" -> "[" \o DumpElems(value.arr, FALSE) \o "]"
      [] value.kind = "null" -> "null"

json_dumps(value, sort_keys) ==
    CASE value.kind = "int" -> ToString(value.num)
      [] value.kind = "str" -> "\"" \o value.str \o "\""
      [] value.kind = "obj" ->
           "{" \o DumpEntries(IF sort_keys THEN SortByKey(value.obj) ELSE value.obj,
                              sort_keys) \o "}"
      [] value.kind = "list" -> "[" \o DumpElems(value.arr, sort_keys) \o "]"
      [] value.kind = "null" -> "null"

(***************************************************************************)
(* The data items of the query-analysis responses of the model: one dict   *)
(* in two key orders (at the top level and in the nested dict), a dict     *)
(* that differs from it in a nested value and one that differs in its keys.*)
(***************************************************************************)
DataItems ==
    { JObj(<<KV("a", JInt(1)), KV("b", JObj(<<KV("a", JInt(1)), KV("b", JInt(2))>>))>>),
      JObj(<<KV("b", JObj(<<KV("b", JInt(2)), KV("a", JInt(1))>>)), KV("a", JInt(1))>>),
      JObj(<<KV("a", JInt(1)), KV("b", JObj(<<KV("a", JInt(1)), KV("b", JInt(3))>>))>>),
      JObj(<<KV("a", JInt(1))>>) }

SeqsUpTo(S, n) == UNION { [1..m -> S] : m \in 0..n }

\* A QueryAnalysisResponse: {"data": [...]}.
Responses == { [data |-> d] : d \in SeqsUpTo(DataItems, MaxItems) }

RECURSIVE TotalItems(_)
TotalItems(responses) ==
    IF responses = <<>> THEN 0
    ELSE Len(Head(responses).data) + TotalItems(Tail(responses))

\* The arguments of _deduplicate in the model.
ResponseSequences ==
    { rs \in SeqsUpTo(Responses, MaxResponses) : TotalItems(rs) <= MaxTotalItems }

(***************************************************************************)
(* _deduplicate (query_analysis.py).                                       *)
(***************************************************************************)
\* The body of the inner loop, for data_item = data[i].
RECURSIVE DedupItems(_, _, _)
\* The inner loop comparing each item with the previous item's form only.
DedupItemsLastOnly(data, i, acc) ==
    IF i > Len(data) THEN acc
    ELSE LET serialized == json_dumps(data[i], TRUE)
         IN  DedupItems(data, i + 1,
                 IF serialized \notin acc.seen
                 THEN [seen |-> {serialized},
                       unique |-> Append(acc.unique, data[i])]
                 ELSE acc)

DedupItems(data, i, acc) ==
    IF i > Len(data) THEN acc
    ELSE LET serialized == json_dumps(data[i], TRUE)
         IN  DedupItems(data, i + 1,
                 IF serialized \notin acc.seen
                 THEN [seen |-> acc.seen \cup {serialized},
                       unique |-> Append(acc.unique, data[i])]
                 ELSE acc)

\* The outer loop, for response = responses[r].
RECURSIVE DedupResponses(_, _, _)
DedupResponses(responses, r, acc) ==
    IF r > Len(responses) THEN acc
    ELSE DedupResponses(responses, r + 1, DedupItems(responses[r].data, 1, acc))

_deduplicate(responses) ==
    [data |-> DedupResponses(responses, 1, [seen |-> {}, unique |-> <<>>]).unique]

(***************************************************************************)
(* _make_prompt_template (query_analysis.py).                              *)
(***************************************************************************)
\* Optional[...] values: None, or a value.
None == [none |-> TRUE, val |-> ""]

Some(s) == [none |-> FALSE, val |-> s]

NoExamples == [none |-> TRUE, val |-> <<>>]

\* The additional_kwargs["function_call"] of a message, when it has one.
NoFunctionCall == [present |-> FALSE, name |-> "", arguments |-> ""]

FunctionCall(name, arguments) == [present |-> TRUE, name |-> name, arguments |-> arguments]

\* The components of a prompt: ("system", text) tuples, messages and
\* MessagesPlaceholder, in one record shape.
SystemTuple(text) ==
    [cls |-> "system", content |-> text, function_call |-> NoFunctionCall,
     variable_name |-> ""]

HumanMessage(text) ==
    [cls |-> "HumanMessage", content |-> text, function_call |-> NoFunctionCall,
     variable_name |-> ""]

AIMessage(text, call) ==
    [cls |-> "AIMessage", content |-> text, function_call |-> call,
     variable_name |-> ""]

MessagesPlaceholder(name) ==
    [cls |-> "MessagesPlaceholder", content |-> "", function_call |-> NoFunctionCall,
     variable_name |-> name]

prefix ==
    "You are a world class expert at converting user questions into database "
    \o "queries. Given a question, return a list of database queries optimized to "
    \o "retrieve the most relevant results."

\* Python truth value of an Optional[str].
Truthy(opt) == ~opt.none /\ opt.val # ""

\* The function_call with the default function name.
ExampleFunctionCallDefaultName(example, function_name) ==
    FunctionCall("extractor",
                 json_dumps(JObj(<<KV("data", JList(example.output))>>), FALSE))

\* The function_call of the AIMessage synthesized for an example.
ExampleFunctionCall(example, function_name) ==
    FunctionCall(function_name,
                 json_dumps(JObj(<<KV("data", JList(example.output))>>), FALSE))

\* The loop over the examples, for example = examples[i].
RECURSIVE ExtendWithExamples(_, _, _, _)
\* The loop putting the synthesized message before the example's messages.
ExtendWithExamplesCallFirst(prompt_components, examples, i, function_name) ==
    IF i > Len(examples) THEN prompt_components
    ELSE ExtendWithExamples(
             prompt_components
                 \o <<AIMessage("", ExampleFunctionCall(examples[i], function_name))>>
                 \o examples[i].messages,
             examples, i + 1, function_name)

ExtendWithExamples(prompt_components, examples, i, function_name) ==
    IF i > Len(examples) THEN prompt_components
    ELSE ExtendWithExamples(
             prompt_components \o examples[i].messages
                 \o <<AIMessage("", ExampleFunctionCall(examples[i], function_name))>>,
             examples, i + 1, function_name)

\* The template testing instructions against None only.
_make_prompt_templateNotNone(instructions, examples, function_name) ==
    LET system_message ==
            IF ~instructions.none
            THEN SystemTuple(prefix \o "\n\n" \o instructions.val)
            ELSE SystemTuple(prefix)
        prompt_components ==
            IF ~examples.none
            THEN ExtendWithExamples(<<system_message>>, examples.val, 1, function_name)
            ELSE <<system_message>>
    IN  Append(prompt_components, MessagesPlaceholder("input"))

_make_prompt_template(instructions, examples, function_name) ==
    LET system_message ==
            IF Truthy(instructions)
            THEN SystemTuple(prefix \o "\n\n" \o instructions.val)
            ELSE SystemTuple(prefix)
        prompt_components ==
            IF ~examples.none
            THEN ExtendWithExamples(<<system_message>>, examples.val, 1, function_name)
            ELSE <<system_message>>
    IN  Append(prompt_components, MessagesPlaceholder("input"))

\* The inputs of the model.
MaxExamples == 2
MaxExampleMessages == 2
MaxTotalMessages == 4
MaxOutput == 1

ExampleMessages == { HumanMessage("q"), AIMessage("a", NoFunctionCall) }

OutputItems == { JObj(<<KV("b", JInt(2)), KV("a", JInt(1))>>) }

\* QueryAnalysisExample.
Examples ==
    { [messages |-> m, output |-> o] :
        m \in SeqsUpTo(ExampleMessages, MaxExampleMessages),
        o \in SeqsUpTo(OutputItems, MaxOutput) }

InstructionValues == { None, Some(""), Some("Be terse.") }

RECURSIVE TotalMessages(_)
TotalMessages(examples) ==
    IF examples = <<>> THEN 0
    ELSE Len(Head(examples).messages) + TotalMessages(Tail(examples))

ExamplesValues ==
    { NoExamples }
    \cup { [none |-> FALSE, val |-> e] :
              e \in { x \in SeqsUpTo(Examples, MaxExamples) :
                          TotalMessages(x) <= MaxTotalMessages } }

FunctionNames == { "query_analyzer", "f" }

(***************************************************************************)
(* The endpoints: extract (main.py) and query_analyzer (query_analysis.py) *)
(***************************************************************************)
NumRequests == 2

Reqs == 1..NumRequests

\* The request schemas of the model: a JSON Schema by its "type" and its
\* optional "title".
SchemaObject == [type |-> "object", title |-> None]

SchemaTitled == [type |-> "object", title |-> Some("Person")]

SchemaBogus == [type |-> "bogus", title |-> None]

Schemas == { SchemaObject, SchemaTitled, SchemaBogus }

\* The values "type" may take in the Draft 2020-12 metaschema.
SimpleTypes == { "array", "boolean", "integer", "null", "number", "object", "string" }

NoException == [raised |-> FALSE, cls |-> "", message |-> ""]

Raise(cls, message) == [raised |-> TRUE, cls |-> cls, message |-> message]

\* Draft202012Validator.check_schema(schema): returns, or raises
\* jsonschema.exceptions.SchemaError when the schema is invalid under the
\* metaschema.
check_schema(schema) ==
    IF schema.type \in SimpleTypes THEN NoException
    ELSE Raise("SchemaError",
               "'" \o schema.type \o "' is not valid under any of the given schemas")

\* The classes an exception of class cls is an instance of:
\* jsonschema.exceptions has ValidationError(_Error) and SchemaError(_Error).
ExceptionBases(cls) ==
    CASE cls = "SchemaError" -> { "SchemaError", "_Error", "Exception" }
      [] cls = "ValidationError" -> { "ValidationError", "_Error", "Exception" }
      [] OTHER -> { cls, "Exception" }

\* An except clause naming handler_cls catches exc.
Catches(handler_cls, exc) == exc.raised /\ handler_cls \in ExceptionBases(exc.cls)

\* HTTP responses.
NoResponse == [status |-> 0, detail |-> "", body |-> JNull]

HTTPException(status_code, detail) == [status |-> status_code, detail |-> detail, body |-> JNull]

Ok(body) == [status |-> 200, detail |-> "", body |-> body]

\* An exception no handler catches leaves the endpoint; the server answers
\* with an internal server error.
Unhandled(exc) == [status |-> 500, detail |-> "Internal Server Error", body |-> JNull]

\* The validation left out.
ValidateSchemaSkipped(schema) == NoResponse

\* "Validate the schema itself": the try/except around check_schema.  The
\* result is the response that ends the request, or NoResponse to go on.
ValidateSchema(schema) ==
    LET e == check_schema(schema)
    IN  IF ~e.raised THEN NoResponse
        ELSE IF Catches("ValidationError", e)
             THEN HTTPException(422, "Invalid schema: " \o e.message)
             ELSE Unhandled(e)

\* convert_json_schema_to_openai_schema (extraction.utils): the function
\* descriptor of a schema; its name is the schema's title when it has a
\* non-empty one and a fixed default otherwise, its one argument is "data".
convert_json_schema_to_openai_schema(schema) ==
    [name |-> IF Truthy(schema.title) THEN schema.title.val ELSE "extractor",
     description |-> "",
     parameters |-> [argument |-> "data", schema |-> schema]]

NoFunction == [name |-> "", description |-> "", parameters |-> [argument |-> "", schema |-> SchemaObject]]

\* The prompt of extract, with its {text} variable filled in by invoke.  The
\* backquotes of its code fences are written as apostrophes.
ExtractPrompt(text) ==
    << SystemTuple("You are a top-tier algorithm for extracting information from text. "
                   \o "Only extract information that is relevant to the provided text. "
                   \o "If no information is relevant, use the schema and output "
                   \o "an empty list where appropriate."),
       HumanMessage("I need to extract information from the following text: '''\n"
                    \o text \o "\n'''\n") >>

\* The messages a prompt of _make_prompt_template yields for {"input": messages}.
RECURSIVE FillPlaceholder(_, _)
FillPlaceholder(prompt_components, messages) ==
    IF prompt_components = <<>> THEN <<>>
    ELSE (IF Head(prompt_components).cls = "MessagesPlaceholder"
          THEN messages ELSE <<Head(prompt_components)>>)
         \o FillPlaceholder(Tail(prompt_components), messages)

\* What the model provider answers to one call.
ModelValues ==
    { JObj(<<KV("name", JStr("Jane")), KV("age", JInt(30))>>),
      JObj(<<KV("data", JList(<<JObj(<<KV("a", JInt(1))>>)>>))>>) }

ModelReplies ==
    { [ok |-> TRUE, error |-> "", value |-> v] : v \in ModelValues }
    \cup { [ok |-> FALSE, error |-> e, value |-> JNull] :
             e \in { "APIError", "OutputParserException" } }

NoReply == [ok |-> FALSE, error |-> "", value |-> JNull]

\* extract: extracted_content = runnable.invoke(...) and the return of
\* ExtractResponse(extracted=extracted_content); an exception of the
\* invocation is not caught.
ExtractOutcomeSwallow(reply) ==
    Ok(JObj(<<KV("extracted", reply.value)>>))

ExtractOutcome(reply) ==
    IF reply.ok THEN Ok(JObj(<<KV("extracted", reply.value)>>))
    ELSE Unhandled(Raise(reply.error, ""))

\* query_analyzer: return await runnable.ainvoke(...).
QueryOutcome(reply) ==
    IF reply.ok THEN Ok(reply.value)
    ELSE Unhandled(Raise(reply.error, ""))

\* The requests of the model.
NoRequest ==
    [endpoint |-> "none", schema |-> SchemaObject, text |-> "", messages |-> <<>>,
     instructions |-> None, examples |-> NoExamples]

ExtractRequests ==
    { [endpoint |-> "extract", schema |-> s, text |-> "Jane is 30 years old",
       messages |-> <<>>, instructions |-> None, examples |-> NoExamples] :
        s \in Schemas }

RequestExample ==
    [messages |-> <<HumanMessage("q")>>,
     output |-> <<JObj(<<KV("b", JInt(2)), KV("a", JInt(1))>>)>>]

QueryAnalysisRequests ==
    { [endpoint |-> "query_analyzer", schema |-> s, text |-> "",
       messages |-> <<HumanMessage("which one?")>>, instructions |-> i,
       examples |-> e] :
        s \in Schemas, i \in { Some("Be terse.") },
        e \in { NoExamples, [none |-> FALSE, val |-> <<RequestExample>>] } }

NoCall == [messages |-> <<>>, functions |-> <<>>]

\* The module-level model clients: model = ChatOpenAI(temperature=0) of
\* main.py and model = get_model() of query_analysis.py.
ModelClients ==
    [main |-> [temperature |-> 0], query_analysis |-> [temperature |-> 0]]

(***************************************************************************)
(* The extractor endpoints of test_api_extract.py: POST /extractors and    *)
(* POST /extract.                                                          *)
(***************************************************************************)
MaxExtractors == 3

\* The ids a created extractor may get.
UUIDs == 1..MaxExtractors

\* UUID(int=1027), the id of the test that no extractor has.
UnknownId == 1027

Contents == { "Test Content", "This is a named temporary file." }

\* text[:10].
FirstTen(text) == SubSeq(text, 1, IF Len(text) < 10 THEN Len(text) ELSE 10)

\* mock_extraction_runnable: the runnable the test patches in.
mock_extraction_runnable(extract_request) ==
    JObj(<<KV("extracted", JStr(FirstTen(extract_request.text)))>>)

NoExtractCall == [kind |-> "none", extractor_id |-> 0, source |-> "", text |-> ""]

NoExtractorResponse == [status |-> 0, id |-> 0, body |-> JNull]

\* POST /extract answering without looking the extractor up.
extract_endpointNoLookup(store, extractor_id, text) ==
    [status |-> 200, id |-> 0,
     body |-> mock_extraction_runnable([extractor_id |-> extractor_id, text |-> text])]

\* POST /extract: 404 when no extractor has the id, and otherwise the
\* result of the extraction runnable on the text or on the file's content.
extract_endpoint(store, extractor_id, text) ==
    IF extractor_id \notin store
    THEN [status |-> 404, id |-> 0, body |-> JNull]
    ELSE [status |-> 200, id |-> 0,
          body |-> mock_extraction_runnable([extractor_id |-> extractor_id, text |-> text])]

VARIABLES dpc, dresponses, dresult,
          ppc, pinstructions, pexamples, pfunction_name, presult,
          model, req, pc, steps, openai_function, prompt, calls, sent, reply, response,
          extractors, ecall, eresponse

vars == <<dpc, dresponses, dresult,
          ppc, pinstructions, pexamples, pfunction_name, presult,
          model, req, pc, steps, openai_function, prompt, calls, sent, reply, response,
          extractors, ecall, eresponse>>

evars == <<extractors, ecall, eresponse>>

hvars == <<model, req, pc, steps, openai_function, prompt, calls, sent, reply, response>>

dvars == <<dpc, dresponses, dresult>>

pvars == <<ppc, pinstructions, pexamples, pfunction_name, presult>>

DedupIdle == dpc = "idle" /\ dresponses = <<>> /\ dresult = [data |-> <<>>]

PromptIdle ==
    /\ ppc = "idle"
    /\ pinstructions = None
    /\ pexamples = NoExamples
    /\ pfunction_name = ""
    /\ presult = <<>>

\* The function descriptor of request r: the translation of its own schema.
RequestFunctionOfLatest(r) ==
    convert_json_schema_to_openai_schema(
        req[CHOOSE q \in Reqs : pc[q] # "idle" /\ \A p \in Reqs : pc[p] # "idle" => p <= q].schema)

RequestFunction(r) == convert_json_schema_to_openai_schema(req[r].schema)

\* The server with no request received.
ServerIdle ==
    /\ model = ModelClients
    /\ req = [r \in Reqs |-> NoRequest]
    /\ pc = [r \in Reqs |-> "idle"]
    /\ steps = [r \in Reqs |-> <<>>]
    /\ openai_function = [r \in Reqs |-> NoFunction]
    /\ prompt = [r \in Reqs |-> <<>>]
    /\ calls = [r \in Reqs |-> 0]
    /\ sent = [r \in Reqs |-> NoCall]
    /\ reply = [r \in Reqs |-> NoReply]
    /\ response = [r \in Reqs |-> NoResponse]

\* No extractor created and no call made.
ExtractorsIdle ==
    /\ extractors = {}
    /\ ecall = NoExtractCall
    /\ eresponse = NoExtractorResponse

InitDedup ==
    /\ dpc = "call"
    /\ dresponses \in ResponseSequences
    /\ dresult = [data |-> <<>>]
    /\ PromptIdle
    /\ ServerIdle
    /\ ExtractorsIdle

InitPrompt ==
    /\ ppc = "call"
    /\ pinstructions \in InstructionValues
    /\ pexamples \in ExamplesValues
    /\ pfunction_name \in FunctionNames
    /\ presult = <<>>
    /\ DedupIdle
    /\ ServerIdle
    /\ ExtractorsIdle

CallMakePromptTemplate ==
    /\ ppc = "call"
    /\ presult' = _make_prompt_template(pinstructions, pexamples, pfunction_name)
    /\ ppc' = "done"
    /\ UNCHANGED <<pinstructions, pexamples, pfunction_name, dvars, hvars, evars>>

NextPrompt == CallMakePromptTemplate

SpecPrompt == InitPrompt /\ [][NextPrompt]_vars

CallDeduplicate ==
    /\ dpc = "call"
    /\ dresult' = _deduplicate(dresponses)
    /\ dpc' = "done"
    /\ UNCHANGED <<dresponses, pvars, hvars, evars>>

NextDedup == CallDeduplicate

SpecDedup == InitDedup /\ [][NextDedup]_vars

(***************************************************************************)
(* The requests.  Each request runs its endpoint's statements in order;    *)
(* the steps of different requests interleave.                             *)
(***************************************************************************)
Init == DedupIdle /\ PromptIdle /\ ServerIdle /\ ExtractorsIdle

\* A request arrives at one of the endpoints.
Receive(r) ==
    /\ pc[r] = "idle"
    /\ \E request \in ExtractRequests \cup QueryAnalysisRequests :
           req' = [req EXCEPT ![r] = request]
    /\ pc' = [pc EXCEPT ![r] = "validate"]
    /\ UNCHANGED <<model, steps, openai_function, prompt, calls, sent, reply, response,
                   dvars, pvars, evars>>

\* Both endpoints: the try/except around check_schema.  (The field
\* validator of QueryAnalysisRequest calls server.validators, which is not
\* among the sources; the chain's body is modelled for every request value.)
Validate(r) ==
    /\ pc[r] = "validate"
    /\ LET failure == ValidateSchema(req[r].schema)
       IN  IF failure = NoResponse
           THEN /\ pc' = [pc EXCEPT ![r] =
                           IF req[r].endpoint = "extract" THEN "prompt" ELSE "translate"]
                /\ steps' = [steps EXCEPT ![r] = Append(@, "validate")]
                /\ UNCHANGED response
           ELSE /\ pc' = [pc EXCEPT ![r] = "done"]
                /\ steps' = [steps EXCEPT ![r] = @ \o <<"validate", "respond">>]
                /\ response' = [response EXCEPT ![r] = failure]
    /\ UNCHANGED <<model, req, openai_function, prompt, calls, sent, reply, dvars, pvars, evars>>

\* extract: prompt = ChatPromptTemplate.from_messages([...]).
ExtractBuildPrompt(r) ==
    /\ pc[r] = "prompt"
    /\ req[r].endpoint = "extract"
    /\ prompt' = [prompt EXCEPT ![r] = ExtractPrompt(req[r].text)]
    /\ steps' = [steps EXCEPT ![r] = Append(@, "prompt")]
    /\ pc' = [pc EXCEPT ![r] = "translate"]
    /\ UNCHANGED <<model, req, openai_function, calls, sent, reply, response, dvars, pvars, evars>>

\* extract: openai_function = convert_json_schema_to_openai_schema(...) and
\* the construction of the runnable.
ExtractTranslate(r) ==
    /\ pc[r] = "translate"
    /\ req[r].endpoint = "extract"
    /\ openai_function' = [openai_function EXCEPT ![r] = RequestFunction(r)]
    /\ steps' = [steps EXCEPT ![r] = Append(@, "translate")]
    /\ pc' = [pc EXCEPT ![r] = "invoke"]
    /\ UNCHANGED <<model, req, prompt, calls, sent, reply, response, dvars, pvars, evars>>

\* query_analyzer: openai_function = convert_json_schema_to_openai_schema(schema).
QueryTranslate(r) ==
    /\ pc[r] = "translate"
    /\ req[r].endpoint = "query_analyzer"
    /\ openai_function' = [openai_function EXCEPT ![r] = RequestFunction(r)]
    /\ steps' = [steps EXCEPT ![r] = Append(@, "translate")]
    /\ pc' = [pc EXCEPT ![r] = "prompt"]
    /\ UNCHANGED <<model, req, prompt, calls, sent, reply, response, dvars, pvars, evars>>

\* query_analyzer: function_name = openai_function["name"] and
\* prompt = _make_prompt_template(...).
QueryBuildPrompt(r) ==
    /\ pc[r] = "prompt"
    /\ req[r].endpoint = "query_analyzer"
    /\ LET function_name == openai_function[r].name
       IN  prompt' = [prompt EXCEPT ![r] =
               _make_prompt_template(req[r].instructions, req[r].examples, function_name)]
    /\ steps' = [steps EXCEPT ![r] = Append(@, "prompt")]
    /\ pc' = [pc EXCEPT ![r] = "invoke"]
    /\ UNCHANGED <<model, req, openai_function, calls, sent, reply, response, dvars, pvars, evars>>

\* runnable.invoke({"text": ...}) of extract and runnable.ainvoke({"input":
\* ...}) of query_analyzer: the prompt is filled in and sent to the model
\* with the request's function bound; the request waits for the answer.
Invoke(r) ==
    /\ pc[r] = "invoke"
    /\ sent' = [sent EXCEPT ![r] =
           [messages |-> IF req[r].endpoint = "extract" THEN prompt[r]
                         ELSE FillPlaceholder(prompt[r], req[r].messages),
            functions |-> <<openai_function[r]>>]]
    /\ calls' = [calls EXCEPT ![r] = @ + 1]
    /\ steps' = [steps EXCEPT ![r] = Append(@, "invoke")]
    /\ pc' = [pc EXCEPT ![r] = "awaiting"]
    /\ UNCHANGED <<model, req, openai_function, prompt, reply, response, dvars, pvars, evars>>

\* The model answers the call of request r, or the call fails; the request
\* returns the result or the exception leaves the endpoint.
Return(r) ==
    /\ pc[r] = "awaiting"
    /\ \E answer \in ModelReplies :
           /\ reply' = [reply EXCEPT ![r] = answer]
           /\ response' = [response EXCEPT ![r] =
                  IF req[r].endpoint = "extract" THEN ExtractOutcome(answer)
                  ELSE QueryOutcome(answer)]
    /\ steps' = [steps EXCEPT ![r] = Append(@, "respond")]
    /\ pc' = [pc EXCEPT ![r] = "done"]
    /\ UNCHANGED <<model, req, openai_function, prompt, calls, sent, dvars, pvars, evars>>

Next ==
    \E r \in Reqs :
        \/ Receive(r)
        \/ Validate(r)
        \/ ExtractBuildPrompt(r)
        \/ ExtractTranslate(r)
        \/ QueryTranslate(r)
        \/ QueryBuildPrompt(r)
        \/ Invoke(r)
        \/ Return(r)

Spec == Init /\ [][Next]_vars

(***************************************************************************)
(* The extractor endpoints.                                                *)
(***************************************************************************)
InitExtractors == DedupIdle /\ PromptIdle /\ ServerIdle /\ ExtractorsIdle

\* POST /extractors: stores a new extractor and returns 200 and its id.
CreateExtractor ==
    /\ \E id \in UUIDs \ extractors :
           /\ extractors' = extractors \cup {id}
           /\ ecall' = [kind |-> "create", extractor_id |-> id, source |-> "", text |-> ""]
           /\ eresponse' = [status |-> 200, id |-> id, body |-> JNull]
    /\ UNCHANGED <<dvars, pvars, hvars>>

\* POST /extract with the content as text or as an uploaded file.
ExtractWithExtractor ==
    /\ \E id \in UUIDs \cup {UnknownId}, source \in { "text", "file" }, content \in Contents :
           /\ ecall' = [kind |-> "extract", extractor_id |-> id, source |-> source,
                        text |-> content]
           /\ eresponse' = extract_endpoint(extractors, id, content)
    /\ UNCHANGED <<extractors, dvars, pvars, hvars>>

NextExtractors == CreateExtractor \/ ExtractWithExtractor

SpecExtractors == InitExtractors /\ [][NextExtractors]_vars

(***************************************************************************)
(* Properties of _deduplicate.                                             *)
(***************************************************************************)
RECURSIVE Flatten(_)
Flatten(responses) ==
    IF responses = <<>> THEN <<>>
    ELSE Head(responses).data \o Flatten(Tail(responses))

Canon(item) == json_dumps(item, TRUE)

\* The canonical forms of the items of F, in order.
RECURSIVE CanonAll(_)
CanonAll(F) == IF F = <<>> THEN <<>> ELSE <<Canon(Head(F))>> \o CanonAll(Tail(F))

\* The items of F at the positions from i on whose canonical form (CF[i])
\* occurs at no earlier position.
RECURSIVE FirstSeenFrom(_, _, _)
FirstSeenFrom(F, CF, i) ==
    IF i > Len(F) THEN <<>>
    ELSE (IF \A j \in 1..(i - 1) : CF[j] # CF[i] THEN <<F[i]>> ELSE <<>>)
         \o FirstSeenFrom(F, CF, i + 1)

\* C3: _deduplicate returns {data: D} where D is the subsequence of the
\* flattened input made of the items whose sorted-key serialization did not
\* occur earlier; D has no two items of one canonical form, every input
\* item's canonical form occurs in D.
C3_DedupFirstSeen ==
    dpc = "done" =>
        LET F == Flatten(dresponses)
            D == dresult.data
            CF == CanonAll(F)
            CD == CanonAll(D)
        IN  /\ DOMAIN dresult = {"data"}
            /\ D = FirstSeenFrom(F, CF, 1)
            /\ \A i, j \in 1..Len(D) : i # j => CD[i] # CD[j]
            /\ \A i \in 1..Len(F) : \E j \in 1..Len(D) : CD[j] = CF[i]

\* A duplicate of the first response recurs in the second and is dropped,
\* and a new item of the second response is kept after the first's items.
C3_Witness ==
    /\ dpc = "done"
    /\ Len(dresponses) = 2
    /\ Len(dresponses[1].data) = 2 /\ Len(dresponses[2].data) = 2
    /\ dresponses[2].data[1] = dresponses[1].data[1]
    /\ Len(dresult.data) = 3
    /\ dresult.data[3] = dresponses[2].data[2]

\* Equality of two JSON values whatever the order of the keys of their dicts.
Lookup(entries, key) == (CHOOSE i \in 1..Len(entries) : entries[i].k = key)

KeysOf(entries) == { entries[i].k : i \in 1..Len(entries) }

RECURSIVE StructEq(_, _)
StructEq(x, y) ==
    /\ x.kind = y.kind
    /\ x.num = y.num
    /\ x.str = y.str
    /\ KeysOf(x.obj) = KeysOf(y.obj)
    /\ \A key \in KeysOf(x.obj) :
           StructEq(x.obj[Lookup(x.obj, key)].v, y.obj[Lookup(y.obj, key)].v)
    /\ Len(x.arr) = Len(y.arr)
    /\ \A i \in 1..Len(x.arr) : StructEq(x.arr[i], y.arr[i])

\* C4: two items are the same for _deduplicate iff they are equal up to the
\* order of their keys at every nesting level: equal items yield one output
\* item, the first emitted; items that differ are both kept.
C4_DedupStructural ==
    dpc = "done" =>
        LET F == Flatten(dresponses)
            D == dresult.data
            CF == CanonAll(F)
        IN  /\ \A i, j \in 1..Len(F) : (CF[i] = CF[j]) <=> StructEq(F[i], F[j])
            /\ \A i \in 1..Len(F) :
                   /\ Cardinality({ p \in 1..Len(D) : StructEq(D[p], F[i]) }) = 1
                   /\ \E p \in 1..Len(D) :
                          /\ StructEq(D[p], F[i])
                          /\ \E f \in 1..i :
                                 /\ D[p] = F[f]
                                 /\ \A g \in 1..(f - 1) : ~StructEq(F[g], F[i])
            /\ \A i, j \in 1..Len(F) :
                   ~StructEq(F[i], F[j]) =>
                       \E p, q \in 1..Len(D) :
                           p # q /\ StructEq(D[p], F[i]) /\ StructEq(D[q], F[j])

\* The two key orders of one nested dict are collapsed into the first, and
\* an item with another value is kept.
C4_Witness ==
    /\ dpc = "done"
    /\ LET F == Flatten(dresponses)
       IN  /\ Len(F) = 3
           /\ F[1] # F[2] /\ StructEq(F[1], F[2])
           /\ F[1].obj[1].k = "a" /\ F[2].obj[1].k = "b"
           /\ F[1].obj[2].v.obj[1].k = "a" /\ F[2].obj[1].v.obj[1].k = "b"
           /\ Len(F[3].obj) = 2 /\ ~StructEq(F[1], F[3])
           /\ dresult.data = <<F[1], F[3]>>

(***************************************************************************)
(* Properties of _make_prompt_template.                                    *)
(***************************************************************************)
ExampleSeq == IF pexamples.none THEN <<>> ELSE pexamples.val

\* The number of prompt components before the messages of example k.
RECURSIVE OffsetOf(_, _)
OffsetOf(examples, k) ==
    IF k = 1 THEN 1
    ELSE OffsetOf(examples, k - 1) + Len(examples[k - 1].messages) + 1

IsSynthesized(m) == m.cls = "AIMessage" /\ m.function_call.present

\* C5: the prompt is one system message, then for each example in input
\* order its messages verbatim and in order followed by one synthesized
\* function-call message, then one placeholder named "input" at the end; its
\* length is 2 + the sum over the examples of (number of messages + 1).
C5_PromptOrder ==
    ppc = "done" =>
        LET E == ExampleSeq
            n == Len(E)
            P == presult
        IN  /\ Len(P) = OffsetOf(E, n + 1) + 1
            /\ P[1].cls = "system"
            /\ P[Len(P)] = MessagesPlaceholder("input")
            /\ \A i \in 1..Len(P) :
                   /\ (P[i].cls = "system" <=> i = 1)
                   /\ (P[i].cls = "MessagesPlaceholder" <=> i = Len(P))
            /\ \A k \in 1..n :
                   /\ \A i \in 1..Len(E[k].messages) :
                          P[OffsetOf(E, k) + i] = E[k].messages[i]
                   /\ IsSynthesized(P[OffsetOf(E, k + 1)])
            /\ Cardinality({ i \in 1..Len(P) : IsSynthesized(P[i]) }) = n

\* Two examples with different numbers of messages have been assembled.
C5_Witness ==
    /\ ppc = "done"
    /\ ~pexamples.none
    /\ Len(pexamples.val) = 2
    /\ Len(pexamples.val[1].messages) = 2
    /\ Len(pexamples.val[2].messages) = 1
    /\ Truthy(pinstructions)
    /\ Len(presult) = 7

\* C6: with no examples (None or an empty sequence) the prompt is the
\* system message followed by the input placeholder; the system message is
\* the preamble alone when instructions is None or empty, and otherwise the
\* preamble, a blank line and the instructions.
C6_NoExamples ==
    (ppc = "done" /\ ExampleSeq = <<>>) =>
        /\ Len(presult) = 2
        /\ presult[1].cls = "system"
        /\ presult[1].function_call = NoFunctionCall
        /\ presult[2] = MessagesPlaceholder("input")
        /\ (pinstructions.none \/ pinstructions.val = "") => presult[1].content = prefix
        /\ ~(pinstructions.none \/ pinstructions.val = "") =>
               /\ Len(presult[1].content) = Len(prefix) + 2 + Len(pinstructions.val)
               /\ presult[1].content = prefix \o "\n\n" \o pinstructions.val

\* An empty example list with instructions given.
C6_Witness ==
    /\ ppc = "done"
    /\ ~pexamples.none /\ pexamples.val = <<>>
    /\ pinstructions = Some("Be terse.")
    /\ Len(presult) = 2
(***************************************************************************)
(* Properties of the endpoints.                                            *)
(***************************************************************************)
Contains(s, sub) ==
    \E i \in 1..(Len(s) - Len(sub) + 1) : SubSeq(s, i, i + Len(sub) - 1) = sub

IsValidSchema(schema) == schema.type \in SimpleTypes

Finished(r) == pc[r] = "done"

\* C1: a request whose schema is not a valid Draft 2020-12 schema ends with
\* status 422 and a detail containing "Invalid schema", on both endpoints.
C1_InvalidSchemaIs422 ==
    \A r \in Reqs :
        (Finished(r) /\ ~IsValidSchema(req[r].schema)) =>
            /\ response[r].status = 422
            /\ Contains(response[r].detail, "Invalid schema")

\* The steps of st occur in the order of the sequence order, each at most once.
IndexIn(order, step) == CHOOSE i \in 1..Len(order) : order[i] = step

InOrder(st, order) ==
    /\ \A i \in 1..Len(st) : \E k \in 1..Len(order) : order[k] = st[i]
    /\ \A i, j \in 1..Len(st) : i < j => IndexIn(order, st[i]) < IndexIn(order, st[j])

\* The model is called only after a successful validation: never for an
\* invalid schema, once for a valid one, and the response of a successful
\* request carries the model's value unmodified.
ExtractCallsAndResult(r) ==
    /\ calls[r] > 0 => (IsValidSchema(req[r].schema) /\ Len(steps[r]) > 0
                        /\ steps[r][1] = "validate")
    /\ ~IsValidSchema(req[r].schema) => calls[r] = 0
    /\ (Finished(r) /\ IsValidSchema(req[r].schema)) => calls[r] = 1
    /\ (Finished(r) /\ response[r].status = 200) =>
           /\ reply[r].ok
           /\ Len(steps[r]) = 5
           /\ response[r].body = JObj(<<KV("extracted", reply[r].value)>>)

PromptBuilt(r) ==
    req[r].endpoint = "query_analyzer" /\ pc[r] \in { "invoke", "awaiting", "done" }
    /\ prompt[r] # <<>>

RequestExamples(r) == IF req[r].examples.none THEN <<>> ELSE req[r].examples.val

\* The message synthesized for example k of request r.
Synthesized(r, k) == prompt[r][OffsetOf(RequestExamples(r), k + 1)]

SynthesizedNameAndContent(r, k) ==
    /\ Synthesized(r, k).cls = "AIMessage"
    /\ Synthesized(r, k).content = ""
    /\ Synthesized(r, k).function_call.present
    /\ Synthesized(r, k).function_call.name = openai_function[r].name
    /\ sent[r] # NoCall =>
           /\ Len(sent[r].functions) = 1
           /\ Synthesized(r, k).function_call.name = sent[r].functions[1].name
           /\ \E i \in 1..Len(sent[r].messages) : sent[r].messages[i] = Synthesized(r, k)

DataArgument(r, k) == JObj(<<KV("data", JList(RequestExamples(r)[k].output))>>)

\* C8 as stated: every synthesized example message of a query-analysis
\* request has empty content, the name of the function the request binds to
\* the model, and as arguments the sorted-key JSON string of
\* {"data": <the example's output>}.
C8_ArgumentsSortedKeys ==
    \A r \in Reqs :
        PromptBuilt(r) =>
            \A k \in 1..Len(RequestExamples(r)) :
                /\ SynthesizedNameAndContent(r, k)
                /\ Synthesized(r, k).function_call.arguments
                       = json_dumps(DataArgument(r, k), TRUE)

\* C8 amended: the arguments are the JSON string of {"data": <output>} with
\* the keys of every object in the order the example gives them.
C8_ArgumentsGivenOrder ==
    \A r \in Reqs :
        PromptBuilt(r) =>
            \A k \in 1..Len(RequestExamples(r)) :
                /\ SynthesizedNameAndContent(r, k)
                /\ Synthesized(r, k).function_call.arguments
                       = json_dumps(DataArgument(r, k), FALSE)
                /\ Synthesized(r, k).function_call.arguments
                       = "{\"data\": ["
                         \o json_dumps(RequestExamples(r)[k].output[1], FALSE) \o "]}"

\* A query-analysis request with a titled schema and an example has sent
\* its prompt to the model.
C8_Witness ==
    \E r \in Reqs :
        /\ PromptBuilt(r)
        /\ Len(RequestExamples(r)) = 1
        /\ req[r].schema = SchemaTitled
        /\ sent[r] # NoCall
        /\ Synthesized(r, 1).function_call.name = "Person"

\* C9: when the model invocation of a request fails, the request ends with
\* a 5xx status and no payload, and the model was invoked once.
C9_ModelFailure ==
    \A r \in Reqs :
        (calls[r] > 0 /\ reply[r] # NoReply /\ ~reply[r].ok) =>
            /\ Finished(r)
            /\ response[r].status \in 500..599
            /\ response[r].body = JNull
            /\ calls[r] = 1

\* The model call of an extract request and of a query-analysis request failed.
C9_Witness ==
    \E r, q \in Reqs :
        /\ req[r].endpoint = "extract" /\ req[q].endpoint = "query_analyzer"
        /\ Finished(r) /\ Finished(q)
        /\ reply[r].error = "OutputParserException" /\ reply[q].error = "APIError"
        /\ response[r].status = 500 /\ response[q].status = 500

\* What a request's descriptor, prompt, call and outcome are, from its own
\* input and the answer to its own call.
OwnFunction(r) == convert_json_schema_to_openai_schema(req[r].schema)

OwnPrompt(r) ==
    IF req[r].endpoint = "extract" THEN ExtractPrompt(req[r].text)
    ELSE _make_prompt_template(req[r].instructions, req[r].examples, OwnFunction(r).name)

OwnState(r) ==
    /\ openai_function[r] \in { NoFunction, OwnFunction(r) }
    /\ prompt[r] \in { <<>>, OwnPrompt(r) }
    /\ pc[r] \in { "invoke", "awaiting" } =>
           openai_function[r] = OwnFunction(r) /\ prompt[r] = OwnPrompt(r)
    /\ sent[r] # NoCall =>
           /\ sent[r].functions = <<OwnFunction(r)>>
           /\ sent[r].messages =
                  IF req[r].endpoint = "extract" THEN OwnPrompt(r)
                  ELSE FillPlaceholder(OwnPrompt(r), req[r].messages)
    /\ (Finished(r) /\ reply[r] # NoReply) =>
           response[r] = IF reply[r].ok
                         THEN Ok(IF req[r].endpoint = "extract"
                                 THEN JObj(<<KV("extracted", reply[r].value)>>)
                                 ELSE reply[r].value)
                         ELSE [status |-> 500, detail |-> "Internal Server Error",
                               body |-> JNull]

LocalState(r) ==
    <<pc[r], steps[r], openai_function[r], prompt[r], calls[r], sent[r], response[r]>>

\* A step is a step of one request and leaves every other request's state alone.
OneRequestStep ==
    \E r \in Reqs :
        \A q \in Reqs \ {r} :
            /\ req'[q] = req[q] /\ reply'[q] = reply[q]
            /\ LocalState(q)' = LocalState(q)

\* C10: under any interleaving the descriptor, the prompt and the outcome
\* of a request depend only on its own input and on the model's answer to
\* its own call; no step of a request changes another request's state, and
\* the module-level model clients are never changed.
C10_Isolation ==
    /\ [](\A r \in Reqs : OwnState(r))
    /\ [](\A r, q \in Reqs :
              (req[r] = req[q] /\ pc[r] = pc[q] /\ reply[r] = reply[q]) =>
                  LocalState(r) = LocalState(q))
    /\ [](model = ModelClients)
    /\ [][OneRequestStep /\ model' = model]_vars

\* Two requests with different schemas are in flight at once: one waits for
\* the model while the other has built its descriptor.
C10_Witness ==
    \E r, q \in Reqs :
        /\ r # q
        /\ req[r].schema = SchemaTitled /\ req[q].schema = SchemaObject
        /\ req[q].endpoint = "query_analyzer"
        /\ pc[q] = "awaiting"
        /\ pc[r] = "invoke"
        /\ openai_function[r].name = "Person"
        /\ openai_function[q].name = "extractor"

(***************************************************************************)
(* Properties of the extractor endpoints.                                  *)
(***************************************************************************)
\* C7: POST /extract with an id no extractor was created with returns 404;
\* POST /extractors returns 200 and the new id, and POST /extract with that
\* id returns 200 and the extraction runnable's result, for text and for an
\* uploaded file alike.
C7_ExtractorLookup ==
    /\ ecall.kind = "create" =>
           /\ eresponse.status = 200
           /\ eresponse.id = ecall.extractor_id
           /\ eresponse.id \in extractors
    /\ (ecall.kind = "extract" /\ ecall.extractor_id \notin extractors) =>
           eresponse.status = 404 /\ eresponse.body = JNull
    /\ (ecall.kind = "extract" /\ ecall.extractor_id \in extractors) =>
           /\ eresponse.status = 200
           /\ ecall.text = "Test Content" =>
                  eresponse.body = JObj(<<KV("extracted", JStr("Test Conte"))>>)
           /\ ecall.text = "This is a named temporary file." =>
                  eresponse.body = JObj(<<KV("extracted", JStr("This is a "))>>)

\* An uploaded file has been extracted with a created extractor.
C7_Witness ==
    /\ ecall.kind = "extract"
    /\ ecall.source = "file"
    /\ ecall.extractor_id \in extractors
    /\ eresponse.status = 200
    /\ eresponse.body = JObj(<<KV("extracted", JStr("This is a "))>>)
====
